---- MODULE Spec2Model ----
(***************************************************************************)
(* Wiener's continued-fraction attack on RSA (Wienerattack.py).            *)
(*                                                                         *)
(* The program is modelled as one sequential process: main reads e and n,  *)
(* calls wiener_attack, which runs continued_fraction_expansion (a while   *)
(* loop), convergents_from_cf (a for loop) and the candidate scan (a for   *)
(* loop), and main reports the outcome.  Each loop iteration is one step.  *)
(* Python's integers are unbounded; the bounds below keep every           *)
(* intermediate value far inside TLC's integers, so the arithmetic is      *)
(* exact.                                                                  *)
(***************************************************************************)
EXTENDS Integers, Sequences, FiniteSets

VARIABLES
    pc,            \* position of the process: main, expand, conv, test, report, done
    parsed,        \* whether both int(input(...)) calls of main succeeded
    e, n,          \* the public exponent and the modulus read by main
    numerator,     \* locals of continued_fraction_expansion
    denominator,
    cf,            \* the term list (0-based in Python, 1-based here)
    i,             \* loop index of convergents_from_cf (0-based, as in the code)
    convergents,   \* the list built by convergents_from_cf
    pos,           \* how many convergents the scan of wiener_attack has consumed
    loc,           \* locals of the scan: k, d, phi, b, disc, sq, x1, x2
    verdict,       \* branch taken by the last scan iteration
    ret,           \* return value of wiener_attack (None until it returns)
    raised,        \* the uncaught exception, if any
    output         \* what main printed at the end

vars == <<pc, parsed, e, n, numerator, denominator, cf, i, convergents, pos,
          loc, verdict, ret, raised, output>>

(***************************************************************************)
(* Bounds of the model.                                                    *)
(***************************************************************************)
MaxE == 64
MaxN == 48
MaxP == 31
MaxW == 151
MaxD == 3
MaxTerm == 3
MaxLen == 4

(***************************************************************************)
(* Python values and arithmetic.                                           *)
(***************************************************************************)
\* Python's None where the code returns it in place of a non-negative integer.
None == -1

\* Marks that math.isqrt raised ValueError (negative argument).
IsqrtRaised == -2

\* a // b for b # 0: floor division.
PyFloorDiv(a, b) == IF b > 0 THEN a \div b ELSE (0 - a) \div (0 - b)

\* a % b for b # 0: the remainder of floor division (sign of b).
PyMod(a, b) == a - b * PyFloorDiv(a, b)

\* The largest r in lo..hi with r * r <= x, by bisection (lo * lo <= x).
RECURSIVE IsqrtBetween(_, _, _)
IsqrtBetween(x, lo, hi) ==
    IF lo >= hi THEN lo
    ELSE LET mid == (lo + hi + 1) \div 2
         IN  IF mid * mid <= x THEN IsqrtBetween(x, mid, hi)
             ELSE IsqrtBetween(x, lo, mid - 1)

\* math.isqrt(x) for x >= 0: the floor of the square root.  The search stops
\* at 46340, the largest root of any value the model computes.
Isqrt(x) == IsqrtBetween(x, 0, IF x < 46340 THEN x ELSE 46340)

(***************************************************************************)
(* continued_fraction_expansion                                            *)
(***************************************************************************)
\* A plausible slip: the quotient rounded up instead of down.
QuotientCeil(num, den) == PyFloorDiv(num + den - 1, den)

\* a = numerator // denominator
Quotient(num, den) == PyFloorDiv(num, den)

\* One iteration of "while denominator:".
ExpandStep ==
    /\ pc = "expand"
    /\ denominator # 0
    /\ LET a == Quotient(numerator, denominator)
       IN  /\ cf' = Append(cf, a)
           /\ numerator' = denominator
           /\ denominator' = numerator - a * denominator
    /\ UNCHANGED <<pc, parsed, e, n, i, convergents, pos, loc, verdict, ret,
                   raised, output>>

\* The loop ends, "return cf"; wiener_attack goes on to convergents_from_cf(cf).
ExpandReturn ==
    /\ pc = "expand"
    /\ denominator = 0
    /\ pc' = "conv"
    /\ convergents' = <<>>
    /\ i' = 0
    /\ UNCHANGED <<parsed, e, n, numerator, denominator, cf, pos, loc, verdict,
                   ret, raised, output>>

(***************************************************************************)
(* convergents_from_cf                                                     *)
(***************************************************************************)
\* A plausible slip: the two previous convergents swapped in the recurrence.
NextConvergentSwapped(terms, convs, j) ==
    IF j = 0 THEN <<terms[1], 1>>
    ELSE IF j = 1 THEN <<terms[1] * terms[2] + 1, terms[2]>>
    ELSE <<terms[j + 1] * convs[j - 1][1] + convs[j][1],
           terms[j + 1] * convs[j - 1][2] + convs[j][2]>>

\* The pair appended at loop index j (0-based); convs holds entries 0..j-1.
NextConvergent(terms, convs, j) ==
    IF j = 0 THEN <<terms[1], 1>>
    ELSE IF j = 1 THEN <<terms[1] * terms[2] + 1, terms[2]>>
    ELSE <<terms[j + 1] * convs[j][1] + convs[j - 1][1],
           terms[j + 1] * convs[j][2] + convs[j - 1][2]>>

\* One iteration of "for i in range(len(cf))".
ConvStep ==
    /\ pc = "conv"
    /\ i < Len(cf)
    /\ convergents' = Append(convergents, NextConvergent(cf, convergents, i))
    /\ i' = i + 1
    /\ UNCHANGED <<pc, parsed, e, n, numerator, denominator, cf, pos, loc,
                   verdict, ret, raised, output>>

\* "return convergents"; wiener_attack starts its scan.
ConvReturn ==
    /\ pc = "conv"
    /\ i = Len(cf)
    /\ pc' = "test"
    /\ pos' = 0
    /\ UNCHANGED <<parsed, e, n, numerator, denominator, cf, i, convergents,
                   loc, verdict, ret, raised, output>>

(***************************************************************************)
(* is_perfect_square                                                       *)
(***************************************************************************)
\* "if n < 0": the guard in front of math.isqrt.
IsNegative(x) == x < 0

\* A plausible slip: the root returned without squaring it back.
IsPerfectSquareNoCheck(x) == IF IsNegative(x) THEN None ELSE Isqrt(x)

\* The root of x when x is a perfect square, None otherwise.  math.isqrt
\* raises ValueError on a negative argument.
IsPerfectSquare(x) ==
    IF IsNegative(x) THEN None
    ELSE IF x < 0 THEN IsqrtRaised
    ELSE LET root == Isqrt(x)
         IN  IF root * root = x THEN root ELSE None

(***************************************************************************)
(* wiener_attack: the scan over the convergents                            *)
(***************************************************************************)
\* A plausible slip: the zero test left out.
KIsZeroNever(k) == FALSE

\* "if k == 0: continue"
KIsZero(k) == k = 0

\* A plausible slip: the list walked from its end.
CandidateReversed(convs, p) == convs[Len(convs) - p]

\* The pair "for (k, d_candidate) in convs" yields after p pairs were consumed.
Candidate(convs, p) == convs[p + 1]

\* phi_candidate = (e * d_candidate - 1) // k
PhiCandidate(ee, d, k) == PyFloorDiv(ee * d - 1, k)

\* A plausible slip: the sign of the constant 1.
BCoeffSlip(nn, phi) == 0 - (nn - phi - 1)

\* b = -(n - phi_candidate + 1)
BCoeff(nn, phi) == 0 - (nn - phi + 1)

\* discriminant = b * b - 4 * a * c with a = 1, c = n
Discriminant(b, nn) == b * b - 4 * 1 * nn

\* x1 = (-b + sqrt_discriminant) // 2
Root1(b, sq) == PyFloorDiv((0 - b) + sq, 2)

\* x2 = (-b - sqrt_discriminant) // 2
Root2(b, sq) == PyFloorDiv((0 - b) - sq, 2)

\* The body of the scan loop for the pair (k, d): the branch it takes and the
\* locals it leaves.  A local the iteration does not assign keeps its value.
TestCandidate(ee, nn, k, d, old) ==
    LET l0 == [old EXCEPT !.k = k, !.d = d]
    IN  IF KIsZero(k) THEN [verdict |-> "skip_zero", loc |-> l0]
        ELSE IF k = 0 THEN [verdict |-> "ZeroDivisionError", loc |-> l0]
        ELSE IF PyMod(ee * d - 1, k) # 0 THEN [verdict |-> "skip_mod", loc |-> l0]
        ELSE LET phi == PhiCandidate(ee, d, k)
                 b == BCoeff(nn, phi)
                 disc == Discriminant(b, nn)
                 sq == IsPerfectSquare(disc)
                 l1 == [l0 EXCEPT !.phi = phi, !.b = b, !.disc = disc]
                 l2 == [l1 EXCEPT !.sq = sq]
             IN  IF sq = IsqrtRaised THEN [verdict |-> "ValueError", loc |-> l1]
                 ELSE IF sq = None THEN [verdict |-> "skip_square", loc |-> l2]
                 ELSE LET x1 == Root1(b, sq)
                          x2 == Root2(b, sq)
                          l3 == [l2 EXCEPT !.x1 = x1, !.x2 = x2]
                      IN  IF x1 * x2 = nn
                          THEN [verdict |-> "accept", loc |-> l3]
                          ELSE [verdict |-> "reject", loc |-> l3]

\* One iteration of "for (k, d_candidate) in convs": continue, return
\* d_candidate, or die of an uncaught exception.
TestStep ==
    /\ pc = "test"
    /\ pos < Len(convergents)
    /\ LET c == Candidate(convergents, pos)
           out == TestCandidate(e, n, c[1], c[2], loc)
       IN  /\ pos' = pos + 1
           /\ loc' = out.loc
           /\ verdict' = out.verdict
           /\ ret' = IF out.verdict = "accept" THEN c[2] ELSE ret
           /\ raised' = IF out.verdict \in {"ZeroDivisionError", "ValueError"}
                        THEN out.verdict ELSE raised
           /\ pc' = IF out.verdict = "accept" THEN "report"
                    ELSE IF out.verdict \in {"ZeroDivisionError", "ValueError"}
                    THEN "done" ELSE pc
    /\ UNCHANGED <<parsed, e, n, numerator, denominator, cf, i, convergents,
                   output>>

\* The list is exhausted: "return None".
TestExhausted ==
    /\ pc = "test"
    /\ pos = Len(convergents)
    /\ ret' = None
    /\ pc' = "report"
    /\ UNCHANGED <<parsed, e, n, numerator, denominator, cf, i, convergents,
                   pos, loc, verdict, raised, output>>

(***************************************************************************)
(* main                                                                    *)
(***************************************************************************)
\* The try block: both values parse and wiener_attack(e, n) is called, which
\* starts continued_fraction_expansion(e, n); or ValueError is caught.
MainRead ==
    /\ pc = "main"
    /\ IF parsed
       THEN /\ pc' = "expand"
            /\ numerator' = e
            /\ denominator' = n
            /\ cf' = <<>>
            /\ UNCHANGED output
       ELSE /\ pc' = "done"
            /\ output' = "invalid"
            /\ UNCHANGED <<numerator, denominator, cf>>
    /\ UNCHANGED <<parsed, e, n, i, convergents, pos, loc, verdict, ret, raised>>

\* "if d is not None": the success message or the failure message.
MainReport ==
    /\ pc = "report"
    /\ output' = IF ret # None THEN "success" ELSE "failed"
    /\ pc' = "done"
    /\ UNCHANGED <<parsed, e, n, numerator, denominator, cf, i, convergents,
                   pos, loc, verdict, ret, raised>>

(***************************************************************************)
(* Initial states and specifications.                                      *)
(***************************************************************************)
NoLocals == [k |-> 0, d |-> 0, phi |-> 0, b |-> 0, disc |-> 0, sq |-> None,
             x1 |-> 0, x2 |-> 0]

\* Everything but the input, before main has read anything.
Fresh ==
    /\ numerator = 0 /\ denominator = 0 /\ cf = <<>>
    /\ i = 0 /\ convergents = <<>> /\ pos = 0
    /\ loc = NoLocals /\ verdict = "none"
    /\ ret = None /\ raised = "none" /\ output = "none"

IsPrime(x) == x >= 2 /\ \A r \in 2..(x - 1) : r * r <= x => x % r # 0

PrimesUpTo(m) == {x \in 2..m : IsPrime(x)}

\* Any two integers typed at the prompts, or text that does not parse.
Init ==
    /\ pc = "main"
    /\ \/ parsed = TRUE /\ e \in 0..MaxE /\ n \in 0..MaxN
       \/ parsed = FALSE /\ e = 0 /\ n = 0
    /\ Fresh

\* n a product of two primes and 0 < e < n.
InitRSA ==
    /\ pc = "main"
    /\ parsed = TRUE
    /\ \E p, q \in PrimesUpTo(MaxP) :
          /\ p <= q
          /\ n = p * q
          /\ e \in 1..(p * q - 1)
    /\ Fresh

\* The public exponents e < p*q with e * d = 1 (mod (p-1)(q-1)).
Exponents(p, q, d) ==
    LET phi == (p - 1) * (q - 1)
    IN  {x \in {(1 + j * phi) \div d : j \in {jj \in 0..(3 * d) : (1 + jj * phi) % d = 0}} :
            0 < x /\ x < p * q}

\* RSA keys whose private exponent is at most MaxD.
InitWiener ==
    /\ pc = "main"
    /\ parsed = TRUE
    /\ \E p, q \in PrimesUpTo(MaxW) : \E d \in 1..MaxD :
          /\ p < q
          /\ n = p * q
          /\ e \in Exponents(p, q, d)
    /\ Fresh

\* convergents_from_cf called on its own with any short term list.
TermLists == UNION {[1..len -> 0..MaxTerm] : len \in 0..MaxLen}

InitConv ==
    /\ pc = "conv"
    /\ parsed = TRUE /\ e = 0 /\ n = 0
    /\ numerator = 0 /\ denominator = 0
    /\ cf \in TermLists
    /\ i = 0 /\ convergents = <<>> /\ pos = 0
    /\ loc = NoLocals /\ verdict = "none"
    /\ ret = None /\ raised = "none" /\ output = "none"

Next ==
    \/ MainRead
    \/ ExpandStep
    \/ ExpandReturn
    \/ ConvStep
    \/ ConvReturn
    \/ TestStep
    \/ TestExhausted
    \/ MainReport

NextConv ==
    \/ ConvStep
    \/ ConvReturn

Spec == Init /\ [][Next]_vars

\* The process is sequential and is never suspended: an enabled step is taken.
FairSpec == Spec /\ WF_vars(Next)

SpecRSA == InitRSA /\ [][Next]_vars

SpecWiener == InitWiener /\ [][Next]_vars

SpecConv == InitConv /\ [][NextConv]_vars

(***************************************************************************)
(* Number theory used to state the properties (not part of the program).   *)
(***************************************************************************)
LeastFactor(x) == CHOOSE f \in 2..x : x % f = 0

CoFactor(x) == x \div LeastFactor(x)

\* x = p * q with p, q prime (p = LeastFactor(x), q = CoFactor(x)).
IsSemiprime(x) == x >= 4 /\ IsPrime(CoFactor(x))

Totient(x) == (LeastFactor(x) - 1) * (CoFactor(x) - 1)

\* (e, n, d) is an RSA triple: n = p*q, p # q prime, 0 < e < n,
\* e*d = 1 (mod (p-1)(q-1)).
ValidTriple(ee, nn, d) ==
    /\ IsSemiprime(nn)
    /\ LeastFactor(nn) # CoFactor(nn)
    /\ 0 < ee /\ ee < nn
    /\ (ee * d - 1) % Totient(nn) = 0

\* Wiener's bound d < n^(1/4)/3, that is 81*d^4 < n, written (9*d^2)^2 <= n - 1
\* so that no intermediate value is large.
SmallD(d, nn) == nn >= 1 /\ 9 * d * d <= Isqrt(nn - 1)

\* q < p < 2q for the two prime factors.
Balanced(nn) == CoFactor(nn) < 2 * LeastFactor(nn)

\* wiener_attack has returned (ret holds its value).
Returned == pc \in {"report", "done"} /\ parsed /\ raised = "none"

(***************************************************************************)
(* C1                                                                      *)
(***************************************************************************)
\* C1 as stated: for every valid RSA triple (e, n, d) with 81*d^4 < n,
\* wiener_attack(e, n) returns exactly d.
C1_AsStated ==
    Returned =>
        \A d \in 1..MaxD : (ValidTriple(e, n, d) /\ SmallD(d, n)) => ret = d

\* C1, amended: for every valid RSA triple (e, n, d) with balanced primes
\* (q < p < 2q), e > 1 and 81*d^4 < n, wiener_attack(e, n) returns exactly d.
C1_BalancedSmallD ==
    Returned =>
        \A d \in 1..MaxD :
            (ValidTriple(e, n, d) /\ Balanced(n) /\ e > 1 /\ SmallD(d, n))
                => ret = d

\* A key with d >= 2 inside the bound was attacked and d came back.
C1_Witness ==
    /\ pc = "done"
    /\ \E d \in 2..MaxD :
          ValidTriple(e, n, d) /\ Balanced(n) /\ e > 1 /\ SmallD(d, n) /\ ret = d

(***************************************************************************)
(* C2                                                                      *)
(***************************************************************************)
\* (e, n) is a valid RSA key whose private exponent d in 1..(p-1)(q-1)
\* violates the bound: 81*d^4 >= n.
KeyBeyondBound(ee, nn) ==
    /\ IsSemiprime(nn)
    /\ LeastFactor(nn) # CoFactor(nn)
    /\ 0 < ee /\ ee < nn
    /\ LET phi == Totient(nn)
       IN  \E d \in 1..phi : (ee * d - 1) % phi = 0 /\ ~SmallD(d, nn)

C3_RootsAreThePrimes ==
    (Returned /\ ret # None /\ IsSemiprime(n) /\ 0 < e /\ e < n) =>
        /\ loc.x1 > 1 /\ loc.x2 > 1
        /\ {loc.x1, loc.x2} = {LeastFactor(n), CoFactor(n)}
        /\ (loc.x1 - 1) * (loc.x2 - 1) = loc.phi
        /\ ret = loc.d
        /\ (e * ret - 1) % Totient(n) = 0

(***************************************************************************)
(* C4                                                                      *)
(***************************************************************************)
\* C4: for every prime n and every e > 0, wiener_attack(e, n) terminates and
\* returns None, and never divides by zero nor takes the integer square root
\* of a negative number (no exception is raised).
C4_PrimeModulus ==
    (parsed /\ e > 0 /\ IsPrime(n)) =>
        /\ <>(pc = "done" /\ ret = None /\ output = "failed")
        /\ [](raised = "none" /\ verdict \notin {"accept", "reject"})

\* A prime modulus was attacked: the k = 0 candidate was skipped, a negative
\* discriminant was turned away, and the attack reported failure.
C4_Witness ==
    /\ pc = "done"
    /\ e > 1 /\ IsPrime(n) /\ n >= 7
    /\ Len(convergents) >= 3
    /\ convergents[1][1] = 0
    /\ loc.disc < 0
    /\ output = "failed"

(***************************************************************************)
(* C5                                                                      *)
(***************************************************************************)
\* C5: with e = 0 or n = 0 an input-validation failure is reported, distinct
\* from "not found", before continued_fraction_expansion is entered.
C5_ZeroInputRejected ==
    (parsed /\ (e = 0 \/ n = 0)) =>
        /\ pc \in {"main", "done"}
        /\ cf = <<>>
        /\ (pc = "done" => output \notin {"failed", "success"})

(***************************************************************************)
(* C6                                                                      *)
(***************************************************************************)
\* The finite continued fraction [t_j; t_(j+1), ..., t_m] evaluated back to
\* front, as <<numerator, denominator>>: t_j + 1/rest.
RECURSIVE CFValue(_, _, _)
CFValue(terms, j, m) ==
    IF j = m THEN <<terms[j], 1>>
    ELSE LET rest == CFValue(terms, j + 1, m)
         IN  <<terms[j] * rest[1] + rest[2], rest[1]>>

\* C6: convergents_from_cf(cf) returns len(cf) pairs in input order, entry 0 =
\* (a0, 1), entry 1 = (a0*a1 + 1, a1), entry i = (a_i*h_(i-1) + h_(i-2),
\* a_i*k_(i-1) + k_(i-2)); when a_i >= 1 for all i >= 1, h_i/k_i is the value
\* of [a0; a1, ..., a_i] evaluated back to front.
C6_Convergents ==
    /\ Len(convergents) = i
    /\ (pc = "test" => Len(convergents) = Len(cf))
    /\ \A j \in 1..Len(convergents) :
          /\ j = 1 => convergents[j] = <<cf[1], 1>>
          /\ j = 2 => convergents[j] = <<cf[1] * cf[2] + 1, cf[2]>>
          /\ j >= 3 =>
                /\ convergents[j][1] =
                      cf[j] * convergents[j - 1][1] + convergents[j - 2][1]
                /\ convergents[j][2] =
                      cf[j] * convergents[j - 1][2] + convergents[j - 2][2]
          /\ (\A m \in 2..j : cf[m] >= 1) =>
                LET v == CFValue(cf, 1, j)
                IN  /\ convergents[j][2] > 0 /\ v[2] > 0
                    /\ convergents[j][1] * v[2] = convergents[j][2] * v[1]

\* convergents_from_cf returned on a list of MaxLen terms, all at least 1
\* after the first, not all equal.
C6_Witness ==
    /\ pc = "test"
    /\ Len(cf) = MaxLen
    /\ Len(convergents) = MaxLen
    /\ \A m \in 2..Len(cf) : cf[m] >= 1
    /\ cf[3] # cf[2]

(***************************************************************************)
(* C7                                                                      *)
(***************************************************************************)
\* The pair (k, d) satisfies every check of the verifier: k # 0, k divides
\* e*d - 1, the discriminant is a non-negative perfect square, x1 * x2 = n.
Passes(ee, nn, k, d) ==
    /\ k # 0
    /\ PyMod(ee * d - 1, k) = 0
    /\ LET phi == PyFloorDiv(ee * d - 1, k)
           s == nn - phi + 1
           disc == s * s - 4 * nn
           abs == IF s < 0 THEN 0 - s ELSE s
       IN  /\ disc >= 0
           /\ \E r \in 0..abs :
                 /\ r * r = disc
                 /\ ((s + r) \div 2) * ((s - r) \div 2) = nn

C7_State ==
    /\ pos <= Len(convergents)
    /\ Returned =>
          IF ret # None
          THEN /\ pos >= 1
               /\ ret = convergents[pos][2]
               /\ Passes(e, n, convergents[pos][1], convergents[pos][2])
               /\ \A j \in 1..(pos - 1) :
                     ~Passes(e, n, convergents[j][1], convergents[j][2])
          ELSE /\ pos = Len(convergents)
               /\ \A j \in 1..Len(convergents) :
                     ~Passes(e, n, convergents[j][1], convergents[j][2])

C7_Step ==
    /\ pc = "test" =>
          /\ convergents' = convergents
          /\ \/ pos' = pos + 1
             \/ pos' = pos /\ pos = Len(convergents) /\ pc' = "report"
    /\ pc \in {"report", "done"} =>
          pos' = pos /\ ret' = ret /\ convergents' = convergents

\* C7: the verifier is a strict linear scan: a returned d is the denominator
\* of the lowest-index convergent that passes all checks, every convergent
\* before it failed a check, none after it is examined; None is returned
\* only after every convergent was examined once and failed.
C7_LinearScan == []C7_State /\ [][C7_Step]_vars

\* An accept at the third convergent or later, with convergents left over.
C7_Witness ==
    /\ pc = "done"
    /\ ret # None
    /\ pos >= 3
    /\ pos < Len(convergents)

(***************************************************************************)
(* C8                                                                      *)
(***************************************************************************)
C8_Step ==
    (pc = "expand" /\ n > 0 /\ denominator # 0) =>
        /\ denominator' >= 0
        /\ denominator' < denominator

\* C8: for numerator >= 0 and denominator > 0 every iteration of the
\* expansion loop leaves a new denominator that is non-negative and strictly
\* smaller, the loop runs at most `denominator` times, and wiener_attack(e, n)
\* terminates for every e > 0, n > 0.
C8_Termination ==
    /\ [][C8_Step]_vars
    /\ [](n > 0 => Len(cf) <= n)
    /\ (parsed /\ e > 0 /\ n > 0) => <>(pc = "done")

\* An attack with at least four expansion steps ran to its end.
C8_Witness ==
    /\ pc = "done"
    /\ e > 0 /\ n > 0
    /\ Len(cf) >= 4

(***************************************************************************)
(* C9                                                                      *)
(***************************************************************************)
RECURSIVE GCD(_, _)
GCD(a, b) == IF b = 0 THEN a ELSE GCD(b, a % b)

\* C9: for e >= 0 and n > 0 the last convergent of the expansion of e/n is
\* e/n in lowest terms, (e/g, n/g) with g = gcd(e, n); every term is
\* non-negative and every term after the first is at least 1.
C9_RoundTrip ==
    (parsed /\ n > 0) =>
        /\ \A j \in 1..Len(cf) : cf[j] >= 0 /\ (j >= 2 => cf[j] >= 1)
        /\ pc \in {"test", "report", "done"} =>
              LET last == convergents[Len(convergents)]
                  g == GCD(e, n)
              IN  /\ last[1] * n = last[2] * e
                  /\ last[1] * g = e
                  /\ last[2] * g = n

\* An expansion of a fraction that is not in lowest terms, of several terms.
C9_Witness ==
    /\ pc = "done"
    /\ n > 0 /\ e > n
    /\ GCD(e, n) > 1
    /\ Len(cf) >= 3

(***************************************************************************)
(* C10                                                                     *)
(***************************************************************************)
\* C10: for every candidate that reaches the root computation, -b + s and
\* -b - s are even and x1 * x2 = n, so the final test never rejects: a
\* candidate that passes the perfect-square test is accepted.
C10_FinalTestNeverRejects ==
    /\ verdict # "reject"
    /\ verdict = "accept" =>
          /\ loc.sq * loc.sq = loc.disc
          /\ ((0 - loc.b) + loc.sq) % 2 = 0
          /\ ((0 - loc.b) - loc.sq) % 2 = 0
          /\ 2 * loc.x1 = (0 - loc.b) + loc.sq
          /\ 2 * loc.x2 = (0 - loc.b) - loc.sq
          /\ loc.x1 * loc.x2 = n

\* A candidate with a non-zero square discriminant reached the roots.
C10_Witness ==
    /\ verdict = "accept"
    /\ loc.sq > 0
    /\ loc.x1 * loc.x2 = n

====
